---------------------------- MODULE Spec2Model ----------------------------
(***************************************************************************)
(* Model of openwebui_ha_weather_tool.py (class Tools): the configuration  *)
(* valves, the five concurrent sensor fetches of                           *)
(* get_current_weather_forecast_async, the extraction and assembly of the  *)
(* weather document, and the helpers _parse_datetime,                      *)
(* _localize_forecast_times and _format_value_with_unit.                   *)
(*                                                                         *)
(* Python str values are TLA+ strings; a character is a string of length   *)
(* one.  Decoded JSON values are tagged records (see the J* constructors). *)
(***************************************************************************)
EXTENDS Integers, Sequences, FiniteSets, TLC

(***************************************************************************)
(* Python str primitives used by the source.                               *)
(***************************************************************************)
CharAt(s, i) == SubSeq(s, i, i)

Digits == {"0", "1", "2", "3", "4", "5", "6", "7", "8", "9"}

IsDigit(c) == c \in Digits

DigitVal(c) ==
    CASE c = "0" -> 0 [] c = "1" -> 1 [] c = "2" -> 2 [] c = "3" -> 3
      [] c = "4" -> 4 [] c = "5" -> 5 [] c = "6" -> 6 [] c = "7" -> 7
      [] c = "8" -> 8 [] c = "9" -> 9

\* int(s) for a string of decimal digits
RECURSIVE NumVal(_)
NumVal(s) ==
    IF Len(s) = 0 THEN 0
    ELSE 10 * NumVal(SubSeq(s, 1, Len(s) - 1)) + DigitVal(CharAt(s, Len(s)))

AllDigits(s) == \A i \in 1..Len(s) : IsDigit(CharAt(s, i))

\* str.replace(",", "")
RECURSIVE RemoveCommas(_)
RemoveCommas(s) ==
    IF Len(s) = 0 THEN s
    ELSE IF CharAt(s, 1) = "," THEN RemoveCommas(SubSeq(s, 2, Len(s)))
    ELSE CharAt(s, 1) \o RemoveCommas(SubSeq(s, 2, Len(s)))

IsSpace(c) == c = " "

\* str.strip()
RECURSIVE Strip(_)
Strip(s) ==
    IF Len(s) = 0 THEN s
    ELSE IF IsSpace(CharAt(s, 1)) THEN Strip(SubSeq(s, 2, Len(s)))
    ELSE IF IsSpace(CharAt(s, Len(s))) THEN Strip(SubSeq(s, 1, Len(s) - 1))
    ELSE s

\* sub in s
Contains(s, sub) ==
    \E i \in 1..(Len(s) - Len(sub) + 1) : SubSeq(s, i, i + Len(sub) - 1) = sub

\* "%02d" % n
Pad2(n) == IF n < 10 THEN "0" \o ToString(n) ELSE ToString(n)

\* "%04d" % n
Pad4(n) ==
    IF n < 10 THEN "000" \o ToString(n)
    ELSE IF n < 100 THEN "00" \o ToString(n)
    ELSE IF n < 1000 THEN "0" \o ToString(n)
    ELSE ToString(n)

\* "%06d" % n
Pad6(n) ==
    IF n < 10 THEN "00000" \o ToString(n)
    ELSE IF n < 100 THEN "0000" \o ToString(n)
    ELSE IF n < 1000 THEN "000" \o ToString(n)
    ELSE IF n < 10000 THEN "00" \o ToString(n)
    ELSE IF n < 100000 THEN "0" \o ToString(n)
    ELSE ToString(n)

(***************************************************************************)
(* datetime: calendar arithmetic, strptime, fromisoformat, isoformat and   *)
(* ZoneInfo, as far as _parse_datetime uses them.                          *)
(***************************************************************************)
IsLeap(y) == (y % 4 = 0 /\ y % 100 # 0) \/ y % 400 = 0

DaysInMonth(y, m) ==
    IF m = 2 THEN (IF IsLeap(y) THEN 29 ELSE 28)
    ELSE IF m \in {4, 6, 9, 11} THEN 30 ELSE 31

\* days before the first of month m in year y
RECURSIVE DaysBeforeMonth(_, _)
DaysBeforeMonth(y, m) ==
    IF m = 1 THEN 0 ELSE DaysBeforeMonth(y, m - 1) + DaysInMonth(y, m - 1)

\* date.toordinal(): 0001-01-01 is day 1
ToOrdinal(y, m, d) ==
    LET p == y - 1
    IN  p * 365 + (p \div 4) - (p \div 100) + (p \div 400)
        + DaysBeforeMonth(y, m) + d

\* date.weekday(): Monday is 0, Sunday is 6
Weekday(y, m, d) == (ToOrdinal(y, m, d) + 6) % 7

\* day of the month of the last Sunday of month m
LastSunday(y, m) ==
    LET last == DaysInMonth(y, m)
    IN  last - ((Weekday(y, m, last) + 1) % 7)

\* tzinfo: none (a naive datetime), or a utcoffset in seconds
NoTz == [aware |-> FALSE, off |-> 0]

Tz(off) == [aware |-> TRUE, off |-> off]

\* a datetime object
DateTime(y, mo, d, h, mi, s, us, tzinfo) ==
    [year |-> y, month |-> mo, day |-> d, hour |-> h, minute |-> mi,
     second |-> s, micro |-> us, tzinfo |-> tzinfo]

ValueError == [err |-> "ValueError"]

IsErr(r) == "err" \in DOMAIN r

\* the datetime constructor's range checks
ValidFields(y, mo, d, h, mi, s) ==
    /\ y \in 1..9999
    /\ mo \in 1..12
    /\ d \in 1..DaysInMonth(y, mo)
    /\ h \in 0..23
    /\ mi \in 0..59
    /\ s \in 0..59


(***************************************************************************)
(* datetime.strptime(s, fmt).  The format is matched directive by          *)
(* directive the way _strptime's regular expression does: %Y is four       *)
(* digits, the other numeric directives are two digits in range or else    *)
(* one digit, a blank in the format is one or more blanks, any other       *)
(* character is itself (ignoring case), and the whole string must be used. *)
(* The day alternative " [1-9]" of %d is left out.                         *)
(***************************************************************************)
NoMatch == [n |-> 0, v |-> 0]

\* two digits within lo2..hi2, or else one digit that is at least lo1
ScanField(s, i, lo2, hi2, lo1) ==
    IF /\ i + 1 <= Len(s)
       /\ AllDigits(SubSeq(s, i, i + 1))
       /\ NumVal(SubSeq(s, i, i + 1)) \in lo2..hi2
    THEN [n |-> 2, v |-> NumVal(SubSeq(s, i, i + 1))]
    ELSE IF i <= Len(s) /\ IsDigit(CharAt(s, i)) /\ DigitVal(CharAt(s, i)) >= lo1
    THEN [n |-> 1, v |-> DigitVal(CharAt(s, i))]
    ELSE NoMatch

ScanDirective(d, s, i) ==
    CASE d = "Y" -> IF i + 3 <= Len(s) /\ AllDigits(SubSeq(s, i, i + 3))
                    THEN [n |-> 4, v |-> NumVal(SubSeq(s, i, i + 3))]
                    ELSE NoMatch
      [] d = "m" -> ScanField(s, i, 1, 12, 1)
      [] d = "d" -> ScanField(s, i, 1, 31, 1)
      [] d = "H" -> ScanField(s, i, 0, 23, 0)
      [] d = "M" -> ScanField(s, i, 0, 59, 0)
      [] d = "S" -> ScanField(s, i, 0, 61, 0)

RECURSIVE CountSpaces(_, _)
CountSpaces(s, i) ==
    IF i <= Len(s) /\ IsSpace(CharAt(s, i)) THEN 1 + CountSpaces(s, i + 1) ELSE 0

SameLetter(a, b) == a = b \/ (a = "T" /\ b = "t") \/ (a = "t" /\ b = "T")

StrpDefaults == [Y |-> 1900, m |-> 1, d |-> 1, H |-> 0, M |-> 0, S |-> 0]

RECURSIVE StrpMatch(_, _, _, _, _)

\* directive d of the format scanned as f at position i of s
StrpField(s, i, fmt, j, acc, d, f) ==
    IF f.n = 0 THEN ValueError
    ELSE StrpMatch(s, i + f.n, fmt, j + 2, [acc EXCEPT ![d] = f.v])

\* a blank of the format against the n blanks at position i of s
StrpBlank(s, i, fmt, j, acc, n) ==
    IF n = 0 THEN ValueError ELSE StrpMatch(s, i + n, fmt, j + 1, acc)

StrpMatch(s, i, fmt, j, acc) ==
    IF j > Len(fmt)
    THEN (IF i > Len(s) THEN acc ELSE ValueError)
    ELSE IF CharAt(fmt, j) = "%"
    THEN StrpField(s, i, fmt, j, acc, CharAt(fmt, j + 1),
                   ScanDirective(CharAt(fmt, j + 1), s, i))
    ELSE IF IsSpace(CharAt(fmt, j))
    THEN StrpBlank(s, i, fmt, j, acc, CountSpaces(s, i))
    ELSE IF i <= Len(s) /\ SameLetter(CharAt(s, i), CharAt(fmt, j))
    THEN StrpMatch(s, i + 1, fmt, j + 1, acc)
    ELSE ValueError

\* the datetime of the matched fields r
StrpResult(r) ==
    IF IsErr(r) THEN ValueError
    ELSE IF ~ValidFields(r.Y, r.m, r.d, r.H, r.M, r.S) THEN ValueError
    ELSE DateTime(r.Y, r.m, r.d, r.H, r.M, r.S, 0, NoTz)

strptime(s, fmt) == StrpResult(StrpMatch(s, 1, fmt, 1, StrpDefaults))

(***************************************************************************)
(* datetime.fromisoformat(s), extended format only:                        *)
(*   YYYY-MM-DD[*HH[:MM[:SS[.f+]]][Z|(+|-)HH:MM[:SS]]]                     *)
(* where * is any one character.  The basic (undelimited) and week-date    *)
(* forms that newer interpreters also read are not modelled; the input     *)
(* sets below hold no such string.                                         *)
(***************************************************************************)
TwoDigits(t, i) == i + 1 <= Len(t) /\ AllDigits(SubSeq(t, i, i + 1))

TwoVal(t, i) == NumVal(SubSeq(t, i, i + 1))

\* the first six digits of a fraction, as microseconds
Micros(frac) == NumVal(SubSeq(frac \o "000000", 1, 6))

\* HH[:MM[:SS[.f+]]] -> [h, m, s, us] or ValueError
ParseHHMMSSFF(t) ==
    IF ~TwoDigits(t, 1) THEN ValueError
    ELSE IF Len(t) = 2 THEN [h |-> TwoVal(t, 1), m |-> 0, s |-> 0, us |-> 0]
    ELSE IF CharAt(t, 3) # ":" \/ ~TwoDigits(t, 4) THEN ValueError
    ELSE IF Len(t) = 5 THEN [h |-> TwoVal(t, 1), m |-> TwoVal(t, 4), s |-> 0, us |-> 0]
    ELSE IF CharAt(t, 6) # ":" \/ ~TwoDigits(t, 7) THEN ValueError
    ELSE IF Len(t) = 8
    THEN [h |-> TwoVal(t, 1), m |-> TwoVal(t, 4), s |-> TwoVal(t, 7), us |-> 0]
    ELSE IF CharAt(t, 9) # "." \/ Len(t) < 10 \/ ~AllDigits(SubSeq(t, 10, Len(t)))
    THEN ValueError
    ELSE [h |-> TwoVal(t, 1), m |-> TwoVal(t, 4), s |-> TwoVal(t, 7),
          us |-> Micros(SubSeq(t, 10, Len(t)))]

\* index of the first "+", "-" or "Z" of t, or 0
RECURSIVE TzPos(_, _)
TzPos(t, i) ==
    IF i > Len(t) THEN 0
    ELSE IF CharAt(t, i) \in {"+", "-", "Z"} THEN i
    ELSE TzPos(t, i + 1)

\* the tzinfo of the offset fields c of a suffix with the given sign
TzFromFields(sign, c) ==
    IF IsErr(c) THEN ValueError
    ELSE IF c.h > 23 \/ c.m > 59 \/ c.s > 59 THEN ValueError
    ELSE Tz(sign * (c.h * 3600 + c.m * 60 + c.s))

\* the tzinfo of a tz suffix, or ValueError
ParseTzSuffix(z) ==
    IF z = "Z" THEN Tz(0)
    ELSE IF CharAt(z, 1) = "Z" \/ Len(z) \notin {6, 9} THEN ValueError
    ELSE TzFromFields(IF CharAt(z, 1) = "-" THEN -1 ELSE 1,
                      ParseHHMMSSFF(SubSeq(z, 2, Len(z))))

IsoDateOk(s) ==
    /\ Len(s) >= 10
    /\ AllDigits(SubSeq(s, 1, 4))
    /\ CharAt(s, 5) = "-"
    /\ AllDigits(SubSeq(s, 6, 7))
    /\ CharAt(s, 8) = "-"
    /\ AllDigits(SubSeq(s, 9, 10))

\* the datetime of a date, clock fields c and tzinfo z, or ValueError
IsoResult(y, mo, d, c, z) ==
    IF IsErr(c) \/ IsErr(z) THEN ValueError
    ELSE IF ~ValidFields(y, mo, d, c.h, c.m, c.s) THEN ValueError
    ELSE DateTime(y, mo, d, c.h, c.m, c.s, c.us, z)

\* the time part tstr, split at position p (0: no tz suffix)
IsoTime(y, mo, d, tstr, p) ==
    IF p = 0 THEN IsoResult(y, mo, d, ParseHHMMSSFF(tstr), NoTz)
    ELSE IsoResult(y, mo, d, ParseHHMMSSFF(SubSeq(tstr, 1, p - 1)),
                   ParseTzSuffix(SubSeq(tstr, p, Len(tstr))))

MidnightClock == [h |-> 0, m |-> 0, s |-> 0, us |-> 0]

IsoParts(s, y, mo, d) ==
    IF Len(s) = 10 THEN IsoResult(y, mo, d, MidnightClock, NoTz)
    ELSE IF Len(s) = 11 THEN ValueError
    ELSE IsoTime(y, mo, d, SubSeq(s, 12, Len(s)), TzPos(SubSeq(s, 12, Len(s)), 1))

fromisoformat(s) ==
    IF ~IsoDateOk(s) THEN ValueError
    ELSE IsoParts(s, NumVal(SubSeq(s, 1, 4)), NumVal(SubSeq(s, 6, 7)),
                  NumVal(SubSeq(s, 9, 10)))

(***************************************************************************)
(* zoneinfo.ZoneInfo: the zones of the model and their utcoffset for a     *)
(* wall-clock time (fold = 0).  Europe/London follows the rule in force    *)
(* since 1996: summer time from 01:00 UTC on the last Sunday of March to   *)
(* 01:00 UTC on the last Sunday of October.                                *)
(***************************************************************************)
KnownZones == {"Europe/London", "Asia/Kolkata"}

ZoneInfoNotFoundError == [err |-> "ZoneInfoNotFoundError"]

\* an empty key is refused as malformed, any other unknown key is not found
ZoneInfo(tz_name) ==
    IF tz_name \in KnownZones THEN [key |-> tz_name]
    ELSE IF tz_name = "" THEN ValueError
    ELSE ZoneInfoNotFoundError

\* lexicographic (month, day, hour) comparison
AtOrAfter(dt, mo, d, h) ==
    \/ dt.month > mo
    \/ dt.month = mo /\ dt.day > d
    \/ dt.month = mo /\ dt.day = d /\ dt.hour >= h

utcoffset(tz, dt) ==
    IF tz.key = "Asia/Kolkata" THEN 19800
    ELSE IF /\ AtOrAfter(dt, 3, LastSunday(dt.year, 3), 2)
            /\ ~AtOrAfter(dt, 10, LastSunday(dt.year, 10), 2)
    THEN 3600
    ELSE 0

\* dt.replace(tzinfo=tz): the wall clock is kept, the zone attached
ReplaceTzinfo(dt, tz) == [dt EXCEPT !.tzinfo = Tz(utcoffset(tz, dt))]

\* the "+HH:MM[:SS]" suffix of isoformat()
FormatOffset(off) ==
    LET a == IF off < 0 THEN -off ELSE off
        hh == a \div 3600
        mm == (a % 3600) \div 60
        ss == a % 60
    IN  (IF off < 0 THEN "-" ELSE "+") \o Pad2(hh) \o ":" \o Pad2(mm)
        \o (IF ss # 0 THEN ":" \o Pad2(ss) ELSE "")

\* datetime.isoformat()
isoformat(dt) ==
    Pad4(dt.year) \o "-" \o Pad2(dt.month) \o "-" \o Pad2(dt.day) \o "T"
    \o Pad2(dt.hour) \o ":" \o Pad2(dt.minute) \o ":" \o Pad2(dt.second)
    \o (IF dt.micro # 0 THEN "." \o Pad6(dt.micro) ELSE "")
    \o (IF dt.tzinfo.aware THEN FormatOffset(dt.tzinfo.off) ELSE "")


(***************************************************************************)
(* Decoded JSON values (what response.json() returns).                     *)
(***************************************************************************)
JNull == [t |-> "null"]

JBool(b) == [t |-> "bool", b |-> b]

JInt(i) == [t |-> "int", i |-> i]

JStr(s) == [t |-> "str", s |-> s]

\* l is a sequence of JSON values
JList(l) == [t |-> "list", l |-> l]

\* m is a function from keys (strings) to JSON values
JMap(m) == [t |-> "map", m |-> m]

EmptyMap == JMap(<<>>)

EmptyList == JList(<<>>)

\* Python truthiness: bool(v)
Truthy(v) ==
    CASE v.t = "null" -> FALSE
      [] v.t = "bool" -> v.b
      [] v.t = "int" -> v.i # 0
      [] v.t = "str" -> v.s # ""
      [] v.t = "list" -> Len(v.l) > 0
      [] v.t = "map" -> DOMAIN v.m # {}

\* type(v).__name__
PyTypeName(v) ==
    CASE v.t = "null" -> "NoneType"
      [] v.t = "bool" -> "bool"
      [] v.t = "int" -> "int"
      [] v.t = "str" -> "str"
      [] v.t = "list" -> "list"
      [] v.t = "map" -> "dict"

\* str(v), as an f-string renders a scalar
PyStr(v) ==
    CASE v.t = "null" -> "None"
      [] v.t = "bool" -> (IF v.b THEN "True" ELSE "False")
      [] v.t = "int" -> ToString(v.i)
      [] v.t = "str" -> v.s

\* a raised exception, as the outcome of a call
Raise(exc) == [err |-> exc]

AttributeError == Raise("AttributeError")

TypeError == Raise("TypeError")

\* the outcome of a call that returns v
Ok(v) == [val |-> v]

(***************************************************************************)
(* Tools._parse_datetime                                                   *)
(***************************************************************************)
parse_attempts ==
    << "%Y-%m-%d %H:%M:%S",
       "%Y-%m-%d %H:%M",
       "%Y-%m-%dT%H:%M:%S",
       "%Y-%m-%dT%H:%M" >>

RECURSIVE TryFormats(_, _, _, _)

\* lines 121-124: the outcome dt of one strptime attempt
AfterStrptime(dt_value, s, tz, k, dt) ==
    IF IsErr(dt) THEN TryFormats(dt_value, s, tz, k + 1)
    ELSE JStr(isoformat(ReplaceTzinfo(dt, tz)))

\* LastResort with the `if dt.tzinfo is None` test lost: the zone is always attached
LastResortReapplied(dt_value, tz, dt) ==
    IF IsErr(dt) THEN dt_value
    ELSE JStr(isoformat(ReplaceTzinfo(dt, tz)))

\* lines 127-136: the outcome dt of the last resort, fromisoformat
LastResort(dt_value, tz, dt) ==
    IF IsErr(dt) THEN dt_value
    ELSE IF ~dt.tzinfo.aware THEN JStr(isoformat(ReplaceTzinfo(dt, tz)))
    ELSE JStr(isoformat(dt))

\* lines 118-136: the for loop over parse_attempts, from attempt k on
TryFormats(dt_value, s, tz, k) ==
    IF k > Len(parse_attempts) THEN LastResort(dt_value, tz, fromisoformat(s))
    ELSE AfterStrptime(dt_value, s, tz, k, strptime(s, parse_attempts[k]))

\* lines 109-136, tz being the outcome of ZoneInfo(tz_name)
ParseWithZone(dt_value, tz) ==
    IF IsErr(tz) THEN tz
    ELSE Ok(TryFormats(dt_value, Strip(RemoveCommas(dt_value.s)), tz, 1))

\* dt_value is a JSON value; the outcome is Ok(value) or a raised exception
parse_datetime(dt_value, tz_name) ==
    IF ~Truthy(dt_value) \/ dt_value.t # "str" THEN Ok(dt_value)
    ELSE ParseWithZone(dt_value, ZoneInfo(tz_name))

(***************************************************************************)
(* Tools._localize_forecast_times                                          *)
(***************************************************************************)
DatetimeKeys == <<"datetime", "time", "datetime_utc", "timestamp">>

\* `key in entry`: Ok(TRUE/FALSE), or TypeError for a value that is no container
KeyIn(key, entry) ==
    CASE entry.t = "map" -> Ok(key \in DOMAIN entry.m)
      [] entry.t = "str" -> Ok(Contains(entry.s, key))
      [] entry.t = "list" -> Ok(\E i \in 1..Len(entry.l) : entry.l[i] = JStr(key))
      [] OTHER -> TypeError

RECURSIVE LocalizeEntry(_, _, _)

\* line 150: entry[key] = r, r being the outcome of _parse_datetime
StoreParsed(entry, timezone_str, k, r) ==
    IF IsErr(r) THEN r
    ELSE LocalizeEntry(JMap([entry.m EXCEPT ![DatetimeKeys[k]] = r.val]),
                       timezone_str, k + 1)

\* CheckKey with the isinstance test lost: any value is made a string and parsed
CheckKeyAnyType(entry, timezone_str, k, has) ==
    IF IsErr(has) THEN has
    ELSE IF ~has.val THEN LocalizeEntry(entry, timezone_str, k + 1)
    ELSE IF entry.t # "map" THEN TypeError
    ELSE StoreParsed(entry, timezone_str, k,
                     parse_datetime(JStr(PyStr(entry.m[DatetimeKeys[k]])), timezone_str))

\* line 149, has being the outcome of `key in entry`
CheckKey(entry, timezone_str, k, has) ==
    IF IsErr(has) THEN has
    ELSE IF ~has.val THEN LocalizeEntry(entry, timezone_str, k + 1)
    \* entry[key] on a str or a list: indices must be integers
    ELSE IF entry.t # "map" THEN TypeError
    ELSE IF entry.m[DatetimeKeys[k]].t # "str"
    THEN LocalizeEntry(entry, timezone_str, k + 1)
    ELSE StoreParsed(entry, timezone_str, k,
                     parse_datetime(entry.m[DatetimeKeys[k]], timezone_str))

\* lines 148-150: the inner loop over the keys, from key k on, for one entry
LocalizeEntry(entry, timezone_str, k) ==
    IF k > Len(DatetimeKeys) THEN Ok(entry)
    ELSE CheckKey(entry, timezone_str, k, KeyIn(DatetimeKeys[k], entry))

RECURSIVE LocalizeFrom(_, _, _)

\* entry i replaced by the outcome e of its inner loop
StoreEntry(l, timezone_str, i, e) ==
    IF IsErr(e) THEN e
    ELSE LocalizeFrom([l EXCEPT ![i] = e.val], timezone_str, i + 1)

\* lines 146-150: the outer loop over the entries, from entry i on
LocalizeFrom(l, timezone_str, i) ==
    IF i > Len(l) THEN Ok(JList(l))
    ELSE StoreEntry(l, timezone_str, i, LocalizeEntry(l[i], timezone_str, 1))

localize_forecast_times(forecast_list, timezone_str) ==
    IF forecast_list.t # "list" THEN Ok(forecast_list)
    ELSE LocalizeFrom(forecast_list.l, timezone_str, 1)

(***************************************************************************)
(* Tools._format_value_with_unit                                           *)
(***************************************************************************)
\* format_value_with_unit testing `if not value` instead of `if value is None`
FormatFalsyAsNone(value, unit) ==
    IF ~Truthy(value) THEN JNull
    ELSE JStr(PyStr(value) \o unit)

format_value_with_unit(value, unit) ==
    IF value = JNull THEN JNull
    ELSE JStr(PyStr(value) \o unit)

(***************************************************************************)
(* Tools.Valves, _build_headers, _get_sensor_url                           *)
(***************************************************************************)
Keys == <<"hourly_forecast", "daily_forecast", "current", "current_range",
          "current_date_time">>

KeySet == {Keys[i] : i \in 1..Len(Keys)}

\* sensor_names: role key -> the valve holding that sensor's name
sensor_names(v) ==
    [k \in KeySet |->
        CASE k = "hourly_forecast" -> v.HA_HOURLY_FORECAST_SENSOR_NAME
          [] k = "daily_forecast" -> v.HA_DAILY_FORECAST_SENSOR_NAME
          [] k = "current" -> v.HA_CURRENT_SENSOR_NAME
          [] k = "current_range" -> v.HA_RANGE_SENSOR_NAME
          [] k = "current_date_time" -> v.HA_CURRENT_DATE_TIME_SENSOR_NAME]

build_headers(v) == [Authorization |-> "Bearer " \o v.HA_API_TOKEN]

\* str.rstrip("/")
RECURSIVE RStripSlash(_)
RStripSlash(s) ==
    IF Len(s) > 0 /\ CharAt(s, Len(s)) = "/" THEN RStripSlash(SubSeq(s, 1, Len(s) - 1))
    ELSE s

get_sensor_url(v, sensor_name) == RStripSlash(v.HA_URL) \o "/api/states/" \o sensor_name

(***************************************************************************)
(* Tools._fetch_sensor_data_async, from the reply of client.get on.  A     *)
(* reply is a transport failure (an exception, with its str), or a         *)
(* response with a status code and a body that is JSON or not.  The        *)
(* outcome is the tuple (data, error), None being JNull.                   *)
(***************************************************************************)
TransportFailure(detail) == [kind |-> "exception", detail |-> detail]

Response(status_code, isJson, value) ==
    [kind |-> "response", status_code |-> status_code, isJson |-> isJson, value |-> value]

\* the text of the JSONDecodeError raised by response.json()
JsonDecodeMsg == "Expecting value: line 1 column 1 (char 0)"

HTTP_OK == 200

\* fetch_sensor_data taking only 404 for a failure
FetchOnlyNotFound(reply, sensor_name) ==
    IF reply.kind = "exception"
    THEN [d |-> JNull,
          err |-> JStr("Network error fetching '" \o sensor_name \o "': " \o reply.detail)]
    ELSE IF reply.status_code = 404
    THEN [d |-> JNull,
          err |-> JStr("Sensor '" \o sensor_name \o "' not found or API error (status "
                       \o ToString(reply.status_code) \o ").")]
    ELSE IF reply.isJson
    THEN [d |-> reply.value, err |-> JNull]
    ELSE [d |-> JNull,
          err |-> JStr("Invalid JSON from sensor '" \o sensor_name \o "': " \o JsonDecodeMsg)]

fetch_sensor_data(reply, sensor_name) ==
    IF reply.kind = "exception"
    THEN [d |-> JNull,
          err |-> JStr("Network error fetching '" \o sensor_name \o "': " \o reply.detail)]
    ELSE IF reply.status_code # HTTP_OK
    THEN [d |-> JNull,
          err |-> JStr("Sensor '" \o sensor_name \o "' not found or API error (status "
                       \o ToString(reply.status_code) \o ").")]
    ELSE IF reply.isJson
    THEN [d |-> reply.value, err |-> JNull]
    ELSE [d |-> JNull,
          err |-> JStr("Invalid JSON from sensor '" \o sensor_name \o "': " \o JsonDecodeMsg)]


(***************************************************************************)
(* Tools.get_current_weather_forecast_async.  The outcome of an invocation *)
(* is the document handed to json.dumps (returned as its text), or an      *)
(* exception that leaves the coroutine.                                    *)
(***************************************************************************)
Running == [st |-> "running"]

Returned(doc) == [st |-> "returned", doc |-> doc]

Raised(exc) == [st |-> "raised", exc |-> exc]

ErrorDoc(msg) == JMap([error |-> JStr(msg)])

\* ", ".join(l)
RECURSIVE Join(_)
Join(l) ==
    IF Len(l) = 0 THEN ""
    ELSE IF Len(l) = 1 THEN l[1]
    ELSE l[1] \o ", " \o Join(Tail(l))

\* Missing reporting the first unset sensor only
MissingFirstOnly(v) ==
    SubSeq(SelectSeq(Keys, LAMBDA k : sensor_names(v)[k] = ""), 1, 1)

\* missing = [k for k, name in sensor_names.items() if not name]
Missing(v) == SelectSeq(Keys, LAMBDA k : sensor_names(v)[k] = "")

\* Validate checking the sensor names before the token
ValidateSensorsFirst(v) ==
    IF v.HA_URL = "" THEN Returned(ErrorDoc("HA_URL is not set."))
    ELSE IF Len(Missing(v)) > 0
    THEN Returned(ErrorDoc("Sensor name(s) not set for: " \o Join(Missing(v))))
    ELSE IF v.HA_API_TOKEN = "" THEN Returned(ErrorDoc("HA_API_TOKEN is not set."))
    ELSE [st |-> "ok"]

\* lines 198-218: the error document of a configuration gap, or "ok"
Validate(v) ==
    IF v.HA_URL = "" THEN Returned(ErrorDoc("HA_URL is not set."))
    ELSE IF v.HA_API_TOKEN = "" THEN Returned(ErrorDoc("HA_API_TOKEN is not set."))
    ELSE IF Len(Missing(v)) > 0
    THEN Returned(ErrorDoc("Sensor name(s) not set for: " \o Join(Missing(v))))
    ELSE [st |-> "ok"]

\* the order in which the results of gather are examined
ScanOrder == Keys

\* lines 232-236: index in ScanOrder of the first result with an error, or 0
RECURSIVE FirstError(_, _)
FirstError(res, i) ==
    IF i > Len(ScanOrder) THEN 0
    ELSE IF Truthy(res[ScanOrder[i]].err) THEN i
    ELSE FirstError(res, i + 1)

\* x.get(key, default): Ok(value), or AttributeError when x is no dict
Get(x, key, default) ==
    IF x.t # "map"
    THEN [err |-> "AttributeError",
          msg |-> "'" \o PyTypeName(x) \o "' object has no attribute 'get'"]
    ELSE IF key \in DOMAIN x.m THEN Ok(x.m[key]) ELSE Ok(default)

\* a or {}, a being the outcome of a .get
OrEmpty(a) ==
    IF IsErr(a) THEN a
    ELSE IF Truthy(a.val) THEN a ELSE Ok(EmptyMap)

\* (x.get("attributes", {}) or {})
Attributes(x) == OrEmpty(Get(x, "attributes", EmptyMap))

\* a.get("forecast", []), a being the outcome of the expression before it
GetForecast(a) == IF IsErr(a) THEN a ELSE Get(a.val, "forecast", EmptyList)

\* (x.get("attributes", {}) or {}).get("forecast", [])
Forecast(x) == GetForecast(Attributes(x))

\* the outcomes of the five expressions of the try block, in order
Extracted(hourly, daily, current, range, state) ==
    IF IsErr(hourly) THEN hourly
    ELSE IF IsErr(daily) THEN daily
    ELSE IF IsErr(current) THEN current
    ELSE IF IsErr(range) THEN range
    ELSE IF IsErr(state) THEN state
    ELSE Ok([hourly_forecast |-> hourly.val, daily_forecast |-> daily.val,
             current |-> current.val, current_range |-> range.val,
             current_date_time_str |-> state.val])

\* lines 239-247: the five extracted values, or the first exception of the try block
Extract(data) ==
    Extracted(Forecast(data["hourly_forecast"]),
              Forecast(data["daily_forecast"]),
              Attributes(data["current"]),
              Attributes(data["current_range"]),
              Get(data["current_date_time"], "state", JNull))

\* lines 264-293: the result dict, or the AttributeError of a .get on a non-dict
Assemble(v, x, current_date_time, hourly_forecast, daily_forecast) ==
    LET cur(key) == Get(x.current, key, JNull)
        rng(key) == Get(x.current_range, key, JNull)
        T(value) == format_value_with_unit(value, v.HA_TEMPERATURE_UNIT)
        H(value) == format_value_with_unit(value, v.HA_HUMIDITY_UNIT)
        P(value) == format_value_with_unit(value, v.HA_PRESSURE_UNIT)
    IN  IF x.current.t # "map" THEN Raised(cur("temperature").err)
        ELSE IF x.current_range.t # "map" THEN Raised(rng("max_temperature").err)
        ELSE Returned(JMap(
            [current_date_time |-> current_date_time,
             current_timezone |-> JStr(v.HA_TIMEZONE),
             current_location |-> JStr(v.HA_LOCATION),
             current_weather |-> JMap(
                [temperatures |-> JMap(
                    [current_temperature |-> T(cur("temperature").val),
                     temperature_high |-> T(rng("max_temperature").val),
                     temperature_low |-> T(rng("min_temperature").val)]),
                 humidities |-> JMap(
                    [humidity |-> H(cur("humidity").val),
                     humidity_high |-> H(rng("max_humidity").val),
                     humidity_low |-> H(rng("min_humidity").val)]),
                 pressures |-> JMap(
                    [pressure |-> P(cur("pressure").val),
                     pressure_high |-> P(rng("max_pressure").val),
                     pressure_low |-> P(rng("min_pressure").val)]),
                 lux |-> cur("lx").val]),
             weather_forecasts |-> JMap(
                [hourly_forecast |-> hourly_forecast,
                 daily_forecast |-> daily_forecast])]))

\* lines 258-296, given the outcomes of the three normalizations
Validated(v, x, cdt, hourly, daily) ==
    IF IsErr(cdt) THEN Raised(cdt.err)
    ELSE IF IsErr(hourly) THEN Raised(hourly.err)
    ELSE IF IsErr(daily) THEN Raised(daily.err)
    ELSE IF ~Truthy(hourly.val)
    THEN Returned(ErrorDoc("No hourly forecast data available."))
    ELSE IF ~Truthy(daily.val)
    THEN Returned(ErrorDoc("No daily forecast data available."))
    ELSE Assemble(v, x, cdt.val, hourly.val, daily.val)

\* lines 249-296, after a successful extraction x
Finish(v, x) ==
    Validated(v, x,
              IF Truthy(x.current_date_time_str)
              THEN parse_datetime(x.current_date_time_str, v.HA_TIMEZONE)
              ELSE Ok(x.current_date_time_str),
              localize_forecast_times(x.hourly_forecast, v.HA_TIMEZONE),
              localize_forecast_times(x.daily_forecast, v.HA_TIMEZONE))

\* lines 238-296, x being the outcome of the extraction
AfterExtract(v, x) ==
    IF IsErr(x) THEN Returned(ErrorDoc("Error extracting attributes: " \o x.msg))
    ELSE Finish(v, x.val)

\* lines 232-296, i being the index of the first failed fetch (0: none)
AfterScan(v, res, i) ==
    IF i # 0 THEN Returned(JMap([error |-> res[ScanOrder[i]].err]))
    ELSE AfterExtract(v, Extract([k \in KeySet |-> res[k].d]))

\* lines 230-296: everything after `await asyncio.gather(*tasks)`
AfterGather(v, res) == AfterScan(v, res, FirstError(res, 1))

(***************************************************************************)
(* The inputs of the model: the configurations an instance may hold and    *)
(* the replies the hub (or the network) may give to each sensor's GET.     *)
(***************************************************************************)
\* the longest forecast list a sensor returns
MaxEntries == 2

Names ==
    [hourly_forecast |-> "sensor.hourly", daily_forecast |-> "sensor.daily",
     current |-> "sensor.now", current_range |-> "sensor.range",
     current_date_time |-> "sensor.clock"]

Configs ==
    [HA_URL : {"", "http://ha:8123/"},
     HA_API_TOKEN : {"", "tok"},
     HA_HOURLY_FORECAST_SENSOR_NAME : {"", Names.hourly_forecast},
     HA_DAILY_FORECAST_SENSOR_NAME : {"", Names.daily_forecast},
     HA_CURRENT_SENSOR_NAME : {"", Names.current},
     HA_RANGE_SENSOR_NAME : {"", Names.current_range},
     HA_CURRENT_DATE_TIME_SENSOR_NAME : {"", Names.current_date_time},
     HA_TIMEZONE : {"Europe/London", "Mars/Olympus"},
     HA_LOCATION : {"Polesworth"},
     HA_TEMPERATURE_UNIT : {"degC"},      \* an ASCII stand-in for the default unit
     HA_HUMIDITY_UNIT : {"%"},
     HA_PRESSURE_UNIT : {"hPa"}]

\* all sequences over pool of length 1..n
RECURSIVE SeqsUpTo(_, _)
SeqsUpTo(pool, n) ==
    IF n = 0 THEN {}
    ELSE LET shorter == SeqsUpTo(pool, n - 1)
         IN  {<<e>> : e \in pool} \cup shorter
             \cup {Append(s, e) : s \in shorter, e \in pool}

Attrs(a) == JMap([state |-> JStr("ok"), attributes |-> a])

HourlyEntries ==
    { JMap([datetime |-> JStr("2024-03-05 14:30"), time |-> JInt(1709649000),
            timestamp |-> JStr("not-a-date"), temperature |-> JInt(9)]),
      JInt(5) }

DailyEntries ==
    { JMap([datetime_utc |-> JStr("2024-07-15T06:00:00+05:00"), templow |-> JInt(3)]) }

HourlyBodies ==
    { EmptyList,                                \* the body is no mapping
      JMap([state |-> JStr("ok")]),             \* attributes absent
      Attrs(JNull),
      Attrs(EmptyMap),                          \* forecast absent
      Attrs(JMap([forecast |-> EmptyList])),
      Attrs(JList(<<JInt(1)>>)),                \* attributes no mapping
      Attrs(JMap([forecast |-> JStr("soon")])) }  \* forecast no sequence
    \cup {Attrs(JMap([forecast |-> JList(l)])) : l \in SeqsUpTo(HourlyEntries, MaxEntries)}

DailyBodies ==
    { JMap([state |-> JStr("ok")]), Attrs(JMap([forecast |-> JNull])) }
    \cup {Attrs(JMap([forecast |-> JList(l)])) : l \in SeqsUpTo(DailyEntries, MaxEntries)}

CurrentBodies ==
    { Attrs(JMap([temperature |-> JInt(21), humidity |-> JNull, lx |-> JInt(500)])),
      Attrs(JMap([temperature |-> JInt(0), humidity |-> JStr("55.5"),
                  pressure |-> JInt(1013)])),
      Attrs(JList(<<JInt(1)>>)),
      JStr("unavailable") }

RangeBodies ==
    { Attrs(JMap([max_temperature |-> JInt(25), min_temperature |-> JInt(-3),
                  max_humidity |-> JNull, min_humidity |-> JBool(FALSE),
                  min_pressure |-> JInt(0)])),
      Attrs(JNull),
      Attrs(JStr("n/a")) }

ClockBodies ==
    { JMap([state |-> JStr("2024-07-15, 14:30")]),
      JMap([attributes |-> EmptyMap]),
      JMap([state |-> JInt(5)]),
      JNull }

Bodies(k) ==
    CASE k = "hourly_forecast" -> HourlyBodies
      [] k = "daily_forecast" -> DailyBodies
      [] k = "current" -> CurrentBodies
      [] k = "current_range" -> RangeBodies
      [] k = "current_date_time" -> ClockBodies

StatusCodes == {404, 500}

Replies(k) ==
    {TransportFailure("timed out")}
    \cup {Response(c, TRUE, EmptyMap) : c \in StatusCodes}
    \cup {Response(HTTP_OK, FALSE, JNull)}
    \cup {Response(HTTP_OK, TRUE, b) : b \in Bodies(k)}

(***************************************************************************)
(* The state of one instance and one invocation, and of one use of         *)
(* _parse_datetime on its own output.                                      *)
(***************************************************************************)
VARIABLES
    valves,     \* self.valves
    pc,         \* "idle", "gather" (suspended in asyncio.gather) or "done"
    task,       \* per role key: "none", "pending", "waiting" (GET sent) or "done"
    requests,   \* the GETs issued so far: the calls of client.get, in order
    replies,    \* per role key: what the hub or the network answered
    results,    \* per role key: the tuple its fetch returned
    ret,        \* the outcome of the invocation
    dt_value,   \* the argument of _parse_datetime
    tz_name,    \* its timezone argument
    once,       \* the outcome of _parse_datetime(dt_value, tz_name)
    twice       \* the outcome of _parse_datetime on the value of `once`

vars == <<valves, pc, task, requests, replies, results, ret, dt_value, tz_name, once, twice>>

toolVars == <<valves, pc, task, requests, replies, results, ret>>

dtVars == <<dt_value, tz_name, once, twice>>

NoReply == [kind |-> "none"]

NoResult == [d |-> JNull, err |-> JNull]

NotCalled == [st |-> "not called"]

\* Tools.__init__, before any invocation
InitTool ==
    /\ pc = "idle"
    /\ task = [k \in KeySet |-> "none"]
    /\ requests = <<>>
    /\ replies = [k \in KeySet |-> NoReply]
    /\ results = [k \in KeySet |-> NoResult]
    /\ ret = Running

Init ==
    /\ valves \in Configs
    /\ InitTool
    /\ dt_value = JNull
    /\ tz_name = "Europe/London"
    /\ once = NotCalled
    /\ twice = NotCalled

\* lines 196-228: validation, then the five coroutines handed to gather
Invoke ==
    /\ pc = "idle"
    /\ IF Validate(valves).st # "ok"
       THEN /\ ret' = Validate(valves)
            /\ pc' = "done"
            /\ task' = task
       ELSE /\ ret' = ret
            /\ pc' = "gather"
            /\ task' = [k \in KeySet |-> "pending"]
    /\ UNCHANGED <<valves, requests, replies, results>>
    /\ UNCHANGED dtVars

\* Runnable with a retry: a task whose fetch failed is run again
RunnableWithRetry(i) ==
    \/ task[Keys[i]] = "pending" /\ \A j \in 1..(i - 1) : task[Keys[j]] # "pending"
    \/ task[Keys[i]] = "done" /\ Truthy(results[Keys[i]].err)

\* the event loop runs the tasks in the order gather created them
Runnable(i) == task[Keys[i]] = "pending" /\ \A j \in 1..(i - 1) : task[Keys[j]] # "pending"

\* lines 171-173: a task runs up to `await client.get(url, headers=headers)`
StartFetch(i) ==
    /\ pc = "gather"
    /\ Runnable(i)
    /\ requests' = Append(requests,
                          [url |-> get_sensor_url(valves, sensor_names(valves)[Keys[i]]),
                           headers |-> build_headers(valves)])
    /\ task' = [task EXCEPT ![Keys[i]] = "waiting"]
    /\ UNCHANGED <<valves, pc, replies, results, ret>>
    /\ UNCHANGED dtVars

\* lines 174-183: the reply arrives and the task returns its tuple
Complete(k) ==
    /\ pc = "gather"
    /\ task[k] = "waiting"
    /\ \E reply \in Replies(k) :
          /\ replies' = [replies EXCEPT ![k] = reply]
          /\ results' = [results EXCEPT
                           ![k] = fetch_sensor_data(reply, sensor_names(valves)[k])]
    /\ task' = [task EXCEPT ![k] = "done"]
    /\ UNCHANGED <<valves, pc, requests, ret>>
    /\ UNCHANGED dtVars

\* GatherReady returning at the first failure (as asyncio.wait FIRST_EXCEPTION would)
GatherFirstFailure ==
    \/ \A k \in KeySet : task[k] = "done"
    \/ \E k \in KeySet : task[k] = "done" /\ Truthy(results[k].err)

\* asyncio.gather returns once every task has returned
GatherReady == \A k \in KeySet : task[k] = "done"

\* lines 228-296: gather returns and the rest of the coroutine runs
Resume ==
    /\ pc = "gather"
    /\ GatherReady
    /\ ret' = AfterGather(valves, results)
    /\ pc' = "done"
    /\ UNCHANGED <<valves, task, requests, replies, results>>
    /\ UNCHANGED dtVars

Next ==
    \/ Invoke
    \/ \E i \in 1..Len(Keys) : StartFetch(i)
    \/ \E k \in KeySet : Complete(k)
    \/ Resume

Spec == Init /\ [][Next]_vars

(***************************************************************************)
(* _parse_datetime as a pure function: applied to an input, then to its    *)
(* own output.  The inputs are datetime-like strings in the layouts the    *)
(* hub sends and their near misses, and values that are no strings.        *)
(***************************************************************************)
DateTexts == {"2024-03-05", "2024-07-15", "2024-10-27", "2024-02-30", "2024-3-5"}

Separators == {" ", "T", ", "}

ClockTexts == {"14:30", "14:30:00", "01:30:59", "4:05", "14:30:61", "14:30:00.5"}

OffsetTexts == {"+05:00", "-08:00", "+00:00"}

TzSuffixes == {"", "Z"} \cup OffsetTexts

Paddings == {"", " "}

DtStrings ==
    {pad \o d \o sep \o c \o z \o pad :
        pad \in Paddings, d \in DateTexts, sep \in Separators,
        c \in ClockTexts, z \in TzSuffixes}
    \cup DateTexts
    \cup {"", ",", "not-a-date", "tomorrow, 14:30", "2024-03-05T", "2024-03-05T14"}

DtValues == {JStr(s) : s \in DtStrings} \cup {JNull, JInt(1709649000), JBool(TRUE)}

TzNames == KnownZones \cup {"Mars/Olympus", ""}

InitDt ==
    /\ valves \in {v \in Configs : Validate(v).st = "ok" /\ v.HA_TIMEZONE \in KnownZones}
    /\ InitTool
    /\ dt_value \in DtValues
    /\ tz_name \in TzNames
    /\ once = NotCalled
    /\ twice = NotCalled

Normalize ==
    /\ once = NotCalled
    /\ once' = parse_datetime(dt_value, tz_name)
    /\ UNCHANGED <<dt_value, tz_name, twice>>
    /\ UNCHANGED toolVars

NormalizeAgain ==
    /\ once # NotCalled
    /\ ~IsErr(once)
    /\ twice = NotCalled
    /\ twice' = parse_datetime(once.val, tz_name)
    /\ UNCHANGED <<dt_value, tz_name, once>>
    /\ UNCHANGED toolVars

NextDt == Normalize \/ NormalizeAgain

SpecDt == InitDt /\ [][NextDt]_vars


(***************************************************************************)
(* Vocabulary of the properties.                                           *)
(***************************************************************************)
ConfigComplete ==
    /\ valves.HA_URL # ""
    /\ valves.HA_API_TOKEN # ""
    /\ \A k \in KeySet : sensor_names(valves)[k] # ""

IsErrorDocument(r) ==
    /\ r.st = "returned"
    /\ r.doc.t = "map"
    /\ DOMAIN r.doc.m = {"error"}
    /\ r.doc.m.error.t = "str"

SuccessKeys ==
    {"current_date_time", "current_timezone", "current_location", "current_weather",
     "weather_forecasts"}

IsSuccessDocument(r) ==
    /\ r.st = "returned"
    /\ r.doc.t = "map"
    /\ DOMAIN r.doc.m = SuccessKeys

ErrorMessage(r) == r.doc.m.error.s

\* the message lists role key k (as a whole word of the comma-separated list)
NamesKey(msg, k) == Contains(msg \o ",", " " \o k \o ",")

\* sensor k answered with a status other than 200
NonOk(k) == replies[k].kind = "response" /\ replies[k].status_code # 200

\* sensor k answered 200 with a JSON body
Fetched(k) ==
    /\ replies[k].kind = "response"
    /\ replies[k].status_code = 200
    /\ replies[k].isJson

\* the body of sensor k is a mapping whose attributes, if any, are a mapping or null
WellShaped(k) ==
    /\ replies[k].value.t = "map"
    /\ "attributes" \in DOMAIN replies[k].value.m
          => replies[k].value.m.attributes.t \in {"map", "null"}

\* the attributes of sensor k's body as a function (empty when absent or null)
RawAttributes(k) ==
    IF /\ "attributes" \in DOMAIN replies[k].value.m
       /\ replies[k].value.m.attributes.t = "map"
    THEN replies[k].value.m.attributes.m
    ELSE <<>>

\* the raw reading: null when absent
RawReading(k, key) ==
    IF key \in DOMAIN RawAttributes(k) THEN RawAttributes(k)[key] ELSE JNull

\* the forecast of sensor k is absent (attributes absent or null, or no forecast) or []
EmptyForecast(k) ==
    \/ "forecast" \notin DOMAIN RawAttributes(k)
    \/ RawAttributes(k).forecast = EmptyList

NoHourly == Returned(JMap([error |-> JStr("No hourly forecast data available.")]))

NoDaily == Returned(JMap([error |-> JStr("No daily forecast data available.")]))

(***************************************************************************)
(* C1.  Whatever the configuration and the five replies, the invocation    *)
(* never raises: it ends returning an error document or a success          *)
(* document.                                                               *)
(***************************************************************************)
C1_NeverRaises ==
    pc = "done" => IsErrorDocument(ret) \/ IsSuccessDocument(ret)

(***************************************************************************)
(* C2, as stated.  For each sensor whose configured name is empty, the     *)
(* invocation returns an error document naming that sensor and issues no   *)
(* request.                                                                *)
(***************************************************************************)
C2_EmptySensorAlwaysNamed ==
    \A k \in KeySet :
        sensor_names(valves)[k] = "" =>
            /\ requests = <<>>
            /\ pc = "done" => IsErrorDocument(ret) /\ NamesKey(ErrorMessage(ret), k)

(***************************************************************************)
(* C2, amended.  For each sensor whose configured name is empty, no        *)
(* request is issued and the invocation returns an error document; when    *)
(* HA_URL and HA_API_TOKEN are both set, that document names the sensor.   *)
(***************************************************************************)
C2_EmptySensorNamedWhenUrlAndTokenSet ==
    \A k \in KeySet :
        sensor_names(valves)[k] = "" =>
            /\ requests = <<>>
            /\ pc = "done" => IsErrorDocument(ret)
            /\ (pc = "done" /\ valves.HA_URL # "" /\ valves.HA_API_TOKEN # "")
                  => NamesKey(ErrorMessage(ret), k)

\* two sensors unset, URL and token set, and the invocation has returned
C2_Witness ==
    /\ pc = "done"
    /\ valves.HA_URL # "" /\ valves.HA_API_TOKEN # ""
    /\ valves.HA_DAILY_FORECAST_SENSOR_NAME = ""
    /\ valves.HA_CURRENT_DATE_TIME_SENSOR_NAME = ""
    /\ valves.HA_HOURLY_FORECAST_SENSOR_NAME # ""
    /\ ErrorMessage(ret) = "Sensor name(s) not set for: daily_forecast, current_date_time"

(***************************************************************************)
(* C3, as stated.  Whenever HA_API_TOKEN is empty the invocation returns   *)
(* exactly {"error": "HA_API_TOKEN is not set."} and issues no request,    *)
(* whatever the other fields.                                              *)
(***************************************************************************)
C3_EmptyTokenAlwaysReported ==
    valves.HA_API_TOKEN = "" =>
        /\ requests = <<>>
        /\ pc = "done" => ret = Returned(JMap([error |-> JStr("HA_API_TOKEN is not set.")]))

(***************************************************************************)
(* C3, amended.  Whenever HA_API_TOKEN is empty no request is issued, and  *)
(* when HA_URL is set the invocation returns exactly                       *)
(* {"error": "HA_API_TOKEN is not set."}, whatever the sensor names.       *)
(***************************************************************************)
C3_EmptyTokenReportedWhenUrlSet ==
    valves.HA_API_TOKEN = "" =>
        /\ requests = <<>>
        /\ (pc = "done" /\ valves.HA_URL # "")
              => ret = Returned(JMap([error |-> JStr("HA_API_TOKEN is not set.")]))

\* the token and a sensor name unset, the URL set, and the invocation has returned
C3_Witness ==
    /\ pc = "done"
    /\ valves.HA_API_TOKEN = ""
    /\ valves.HA_URL # ""
    /\ valves.HA_CURRENT_SENSOR_NAME = ""
    /\ ret.st = "returned"
    /\ ErrorMessage(ret) = "HA_API_TOKEN is not set."

(***************************************************************************)
(* C4, as stated.  With a complete configuration, if any sensor answers    *)
(* with a status other than 200, the returned error message holds that     *)
(* sensor's name and that status code, whatever the other four did.        *)
(***************************************************************************)
C4_AnyNonOkReported ==
    (pc = "done" /\ ConfigComplete) =>
        \A k \in KeySet :
            NonOk(k) =>
                /\ IsErrorDocument(ret)
                /\ Contains(ErrorMessage(ret), Names[k])
                /\ Contains(ErrorMessage(ret), ToString(replies[k].status_code))

(***************************************************************************)
(* C4, amended.  With a complete configuration, if a sensor answers with   *)
(* a status other than 200 and every sensor before it in the order         *)
(* hourly_forecast, daily_forecast, current, current_range,                *)
(* current_date_time was fetched without error, the returned error         *)
(* message holds that sensor's name and that status code, whatever the     *)
(* sensors after it did.                                                   *)
(***************************************************************************)
C4_FirstNonOkReported ==
    (pc = "done" /\ ConfigComplete) =>
        \A i \in 1..Len(Keys) :
            (NonOk(Keys[i]) /\ \A j \in 1..(i - 1) : Fetched(Keys[j])) =>
                /\ IsErrorDocument(ret)
                /\ Contains(ErrorMessage(ret), Names[Keys[i]])
                /\ Contains(ErrorMessage(ret), ToString(replies[Keys[i]].status_code))

\* the daily sensor answered 500 after a good hourly one; two later sensors failed otherwise
C4_Witness ==
    /\ pc = "done"
    /\ ConfigComplete
    /\ Fetched("hourly_forecast")
    /\ NonOk("daily_forecast") /\ replies["daily_forecast"].status_code = 500
    /\ replies["current"].kind = "exception"
    /\ NonOk("current_date_time") /\ replies["current_date_time"].status_code = 404
    /\ ErrorMessage(ret) = "Sensor 'sensor.daily' not found or API error (status 500)."

(***************************************************************************)
(* C5.  When all five fetches succeed with well-shaped bodies and the      *)
(* hourly or the daily forecast is empty after extraction, the result is   *)
(* the error document naming the empty forecast, whatever datetime         *)
(* normalization does.                                                     *)
(***************************************************************************)
C5_EmptyForecastIsError ==
    (/\ pc = "done"
     /\ ConfigComplete
     /\ \A k \in KeySet : Fetched(k) /\ WellShaped(k)) =>
        /\ EmptyForecast("hourly_forecast") => ret = NoHourly
        /\ (~EmptyForecast("hourly_forecast") /\ EmptyForecast("daily_forecast"))
              => ret = NoDaily

(***************************************************************************)
(* C6.  In every success document each of the nine temperature, humidity   *)
(* and pressure fields is null exactly when the raw reading is null or     *)
(* absent, and otherwise is the reading followed by the configured unit;   *)
(* a null reading is never rendered as "None" and the unit.                *)
(***************************************************************************)
ReadingFields ==
    { <<"temperatures", "current_temperature", "current", "temperature", "HA_TEMPERATURE_UNIT">>,
      <<"temperatures", "temperature_high", "current_range", "max_temperature", "HA_TEMPERATURE_UNIT">>,
      <<"temperatures", "temperature_low", "current_range", "min_temperature", "HA_TEMPERATURE_UNIT">>,
      <<"humidities", "humidity", "current", "humidity", "HA_HUMIDITY_UNIT">>,
      <<"humidities", "humidity_high", "current_range", "max_humidity", "HA_HUMIDITY_UNIT">>,
      <<"humidities", "humidity_low", "current_range", "min_humidity", "HA_HUMIDITY_UNIT">>,
      <<"pressures", "pressure", "current", "pressure", "HA_PRESSURE_UNIT">>,
      <<"pressures", "pressure_high", "current_range", "max_pressure", "HA_PRESSURE_UNIT">>,
      <<"pressures", "pressure_low", "current_range", "min_pressure", "HA_PRESSURE_UNIT">> }

RenderedAs(raw, out, unit) ==
    /\ (out = JNull) <=> (raw = JNull)
    /\ raw # JNull => out = JStr(PyStr(raw) \o unit)
    /\ out # JStr("None" \o unit)

Group(r, g) == r.doc.m.current_weather.m[g].m

C6_UnitFields ==
    IsSuccessDocument(ret) =>
        \A f \in ReadingFields :
            RenderedAs(RawReading(f[3], f[4]), Group(ret, f[1])[f[2]], valves[f[5]])

\* a success document with zero, negative, string, boolean, null and absent readings
C6_Witness ==
    /\ IsSuccessDocument(ret)
    /\ RawReading("current", "temperature") = JInt(0)
    /\ RawReading("current_range", "min_pressure") = JInt(0)
    /\ Group(ret, "temperatures") =
          [current_temperature |-> JStr("0degC"), temperature_high |-> JStr("25degC"),
           temperature_low |-> JStr("-3degC")]
    /\ Group(ret, "humidities") =
          [humidity |-> JStr("55.5%"), humidity_high |-> JNull,
           humidity_low |-> JStr("False%")]
    /\ Group(ret, "pressures") =
          [pressure |-> JStr("1013hPa"), pressure_high |-> JNull,
           pressure_low |-> JStr("0hPa")]

(***************************************************************************)
(* C7.  _parse_datetime is idempotent on its own output: applied to what   *)
(* it returned, with the same timezone, it returns the same value; and a   *)
(* string that carries a UTC offset keeps that offset in the output (the   *)
(* configured timezone is not reapplied).                                  *)
(***************************************************************************)
C7_Idempotent ==
    /\ twice # NotCalled => twice = once
    /\ (once # NotCalled /\ ~IsErr(once) /\ dt_value.t = "str") =>
          \A z \in OffsetTexts : Contains(dt_value.s, z) => Contains(once.val.s, z)

\* an offset-bearing string was rewritten to ISO form, in a zone with another offset,
\* and normalized again
C7_Witness ==
    /\ dt_value = JStr("2024-07-15 14:30:00+05:00")
    /\ tz_name = "Europe/London"
    /\ once = Ok(JStr("2024-07-15T14:30:00+05:00"))
    /\ twice # NotCalled

(***************************************************************************)
(* C8.  With a complete configuration the five fetches are started         *)
(* without waiting for each other's reply, nothing is returned before all  *)
(* five have completed, and the returned error is that of the first        *)
(* failing sensor in the order hourly_forecast, daily_forecast, current,   *)
(* current_range, current_date_time; the outcome is a function of the      *)
(* five replies alone, whatever the order in which they arrived.           *)
(***************************************************************************)
FetchFailed(k) == replies[k] # NoReply /\ ~Fetched(k)

C8_GatherThenFirstError ==
    /\ (pc = "gather" /\ \E k \in KeySet : task[k] = "pending")
          => ENABLED (\E i \in 1..Len(Keys) : StartFetch(i))
    /\ (ret # Running /\ ConfigComplete) => \A k \in KeySet : task[k] = "done"
    /\ (pc = "done" /\ ConfigComplete) =>
          /\ ret = AfterGather(valves,
                      [k \in KeySet |-> fetch_sensor_data(replies[k], Names[k])])
          /\ \A i \in 1..Len(Keys) :
                (FetchFailed(Keys[i]) /\ \A j \in 1..(i - 1) : Fetched(Keys[j])) =>
                    /\ ret = Returned(JMap([error |-> results[Keys[i]].err]))
                    /\ Contains(ErrorMessage(ret), "'" \o Names[Keys[i]] \o "'")

\* hourly fetched, daily and the clock failed: the daily error is the one returned
C8_Witness ==
    /\ pc = "done"
    /\ ConfigComplete
    /\ Fetched("hourly_forecast")
    /\ replies["daily_forecast"].kind = "exception"
    /\ FetchFailed("current_date_time")
    /\ ErrorMessage(ret) = "Network error fetching 'sensor.daily': timed out"

(***************************************************************************)
(* C9.  An invocation issues no GET when validation fails and otherwise    *)
(* exactly five, one per configured sensor: none before validation has     *)
(* passed, never more than five, and no sensor is requested twice.         *)
(***************************************************************************)
C9_ZeroOrFiveRequests ==
    /\ Len(requests) <= 5
    /\ ~ConfigComplete => requests = <<>>
    /\ pc = "idle" => requests = <<>>
    /\ \A i, j \in 1..Len(requests) : requests[i].url = requests[j].url => i = j
    /\ (pc = "done" /\ ConfigComplete) =>
          /\ Len(requests) = 5
          /\ \A i \in 1..5 :
                requests[i].url = "http://ha:8123/api/states/" \o Names[Keys[i]]

\* an invocation that issued its five GETs although every sensor failed
C9_Witness ==
    /\ pc = "done"
    /\ Len(requests) = 5
    /\ \A k \in KeySet : FetchFailed(k)

(***************************************************************************)
(* C10.  Localization changes only string values under the keys datetime,  *)
(* time, datetime_utc and timestamp: the forecasts of the success          *)
(* document have the entries of the raw forecasts, in number and order,    *)
(* each with the same keys, and with the same value wherever the key is    *)
(* none of the four or the raw value is no string.                         *)
(***************************************************************************)
LocalizedKeys == {"datetime", "time", "datetime_utc", "timestamp"}

EntryKept(r, o) ==
    IF r.t # "map" THEN o = r
    ELSE /\ o.t = "map"
         /\ DOMAIN o.m = DOMAIN r.m
         /\ \A key \in DOMAIN r.m :
               IF key \in LocalizedKeys /\ r.m[key].t = "str"
               THEN o.m[key].t = "str"
               ELSE o.m[key] = r.m[key]

ForecastKept(raw, out) ==
    IF raw.t # "list" THEN out = raw
    ELSE /\ out.t = "list"
         /\ Len(out.l) = Len(raw.l)
         /\ \A i \in 1..Len(raw.l) : EntryKept(raw.l[i], out.l[i])

C10_LocalizeFrame ==
    IsSuccessDocument(ret) =>
        \A k \in {"hourly_forecast", "daily_forecast"} :
            /\ "forecast" \in DOMAIN RawAttributes(k)
            /\ ForecastKept(RawAttributes(k).forecast, ret.doc.m.weather_forecasts.m[k])

\* a success document whose first hourly entry had its datetime rewritten and kept
\* its integer time, its unparsable timestamp and its temperature
C10_Witness ==
    /\ IsSuccessDocument(ret)
    /\ RawAttributes("hourly_forecast").forecast.t = "list"
    /\ RawAttributes("hourly_forecast").forecast.l[1] =
          JMap([datetime |-> JStr("2024-03-05 14:30"), time |-> JInt(1709649000),
                timestamp |-> JStr("not-a-date"), temperature |-> JInt(9)])
    /\ ret.doc.m.weather_forecasts.m.hourly_forecast.l[1] =
          JMap([datetime |-> JStr("2024-03-05T14:30:00+00:00"), time |-> JInt(1709649000),
                timestamp |-> JStr("not-a-date"), temperature |-> JInt(9)])
    /\ Len(ret.doc.m.weather_forecasts.m.daily_forecast.l) = MaxEntries

=============================================================================
